---- MODULE Spec2Model ----
(***************************************************************************)
(* Client-side state of the comment list (CommentList.tsx) and of the      *)
(* comment items it renders (CommentItem.tsx): the top-level window, the   *)
(* per-item copy of the comment, the reply threads, the requests in flight *)
(* and the push events of the socket channel.                              *)
(*                                                                         *)
(* One action is one handler run to completion, followed by the render it  *)
(* causes: items are mounted for the comments of the window while the list *)
(* is shown (loading = FALSE), and an item whose comment prop is a new     *)
(* object runs its prop-sync effect (CommentItem.tsx:43-50).               *)
(***************************************************************************)
EXTENDS Integers, Sequences, FiniteSets, Bags, TLC

\* ------------------------------------------------------------------ bounds
MaxCount == 1        \* like / dislike counts reported by the service: 0..MaxCount
MaxReplyCount == 2   \* reply counts reported by the service: 0..MaxReplyCount
MaxInFlight == 2     \* cap on reaction requests in flight for one reply
MaxFetches == 3      \* cap on top-level fetches in flight
MaxPush == 2         \* cap on pushed creations / deletions in one behaviour
MaxThreadReqs == 1   \* cap on getReplies requests in flight
MaxTotal == 23       \* the service holds 0..MaxTotal top-level comments

\* ------------------------------------------------------- program constants
PageSize == 10       \* limit: 10
NoParent == 0        \* parentComment absent (top-level comment)
NoError == "null"
Kinds == {"like", "dislike", "remove"}
Sorts == {"newest", "mostLiked", "mostDisliked"}
Counts == 0..MaxCount

\* ----------------------------------------------------------------- records
\* A Comment as the client holds it (services/api Comment, the fields the
\* handlers read or write).
MkComment(id, parent, lc, dc, liked, disliked, rc) ==
  [id |-> id, parentComment |-> parent, likeCount |-> lc, dislikeCount |-> dc,
   isLikedByUser |-> liked, isDislikedByUser |-> disliked, replyCount |-> rc]

\* The payload of a 'commentReaction' push event; self is data.userId === user.id.
MkReaction(id, self, type, lc, dc) ==
  [commentId |-> id, self |-> self, type |-> type, likeCount |-> lc, dislikeCount |-> dc]

\* The state of a freshly mounted CommentItem.
NewItem(comment) ==
  [currentComment |-> comment, isLiking |-> FALSE, isDisliking |-> FALSE,
   error |-> NoError, showReplyForm |-> FALSE, replies |-> << >>,
   showReplies |-> FALSE, loadingReplies |-> FALSE, repliesPage |-> 1,
   hasMoreReplies |-> FALSE, isDeleting |-> FALSE]

NoItems == << >>

Min(a, b) == IF a < b THEN a ELSE b

\* ------------------------------------------------------------ sequence help
IdsOf(cs) == {cs[i].id : i \in DOMAIN cs}
CommentOf(cs, id) == cs[CHOOSE i \in DOMAIN cs : cs[i].id = id /\ \A j \in DOMAIN cs : cs[j].id = id => i <= j]
MapSeq(cs, F(_)) == [i \in DOMAIN cs |-> F(cs[i])]
RECURSIVE FilterOut(_, _)
FilterOut(cs, id) ==
  IF cs = << >> THEN << >>
  ELSE IF Head(cs).id = id THEN FilterOut(Tail(cs), id)
       ELSE <<Head(cs)>> \o FilterOut(Tail(cs), id)

\* -------------------------------------------- CommentList socket handlers
\* socketService.onNewComment
OnNewComment(cs, newComment) ==
  IF newComment.parentComment = NoParent THEN <<newComment>> \o cs ELSE cs

\* socketService.onNewReply
OnNewReply(cs, newComment) ==
  IF newComment.parentComment # NoParent
  THEN MapSeq(cs, LAMBDA c : IF c.id = newComment.parentComment
                             THEN [c EXCEPT !.replyCount = @ + 1] ELSE c)
  ELSE cs

Max0(n) == IF n < 0 THEN 0 ELSE n

\* socketService.onCommentDeleted and socketService.on('deletedComment')
OnCommentDeleted(cs, commentId) ==
  IF \E i \in DOMAIN cs : cs[i].id = commentId /\ CommentOf(cs, commentId).parentComment # NoParent
  THEN FilterOut(MapSeq(cs, LAMBDA c : IF c.id = CommentOf(cs, commentId).parentComment
                                       THEN [c EXCEPT !.replyCount = Max0(@ - 1)] ELSE c),
                 commentId)
  ELSE FilterOut(cs, commentId)

\* (a variant that counts the event instead of taking the reported counts)
OnCommentReactionDelta(cs, data) ==
  MapSeq(cs, LAMBDA c :
    IF c.id = data.commentId
    THEN [c EXCEPT
           !.likeCount = IF data.type = "like" THEN @ + 1 ELSE @,
           !.dislikeCount = IF data.type = "dislike" THEN @ + 1 ELSE @,
           !.isLikedByUser = IF data.self THEN data.type = "like" ELSE @,
           !.isDislikedByUser = IF data.self THEN data.type = "dislike" ELSE @]
    ELSE c)

\* socketService.onCommentReaction
OnCommentReaction(cs, data) ==
  MapSeq(cs, LAMBDA c :
    IF c.id = data.commentId
    THEN [c EXCEPT
           !.likeCount = data.likeCount,
           !.dislikeCount = data.dislikeCount,
           !.isLikedByUser =
              IF data.self
              THEN (IF data.type = "like" THEN TRUE
                    ELSE IF data.type = "remove" THEN FALSE ELSE @)
              ELSE @,
           !.isDislikedByUser =
              IF data.self
              THEN (IF data.type = "dislike" THEN TRUE
                    ELSE IF data.type = "remove" THEN FALSE ELSE @)
              ELSE @]
    ELSE c)

\* handleCommentCreated (the form's onCommentCreated)
HandleCommentCreated(cs, newComment) == <<newComment>> \o cs

\* handleCommentDeleted (the items' onCommentDeleted)
HandleCommentDeleted(cs, commentId) == FilterOut(cs, commentId)

\* socketService.onCommentUpdated
OnCommentUpdated(cs, updatedComment) ==
  MapSeq(cs, LAMBDA c : IF c.id = updatedComment.id THEN updatedComment ELSE c)

\* -------------------------------------------- CommentItem socket handlers
\* useEffect on [comment]: { ...prev, ...comment }
SyncProp(prev, comment) == comment

\* handleCommentReaction
HandleCommentReaction(prev, data) ==
  IF data.commentId = prev.id
  THEN [prev EXCEPT !.likeCount = data.likeCount,
                    !.dislikeCount = data.dislikeCount,
                    !.isLikedByUser = (data.type = "like"),
                    !.isDislikedByUser = (data.type = "dislike")]
  ELSE prev

\* handleReplyReaction
HandleReplyReaction(replies, data) ==
  MapSeq(replies, LAMBDA r :
    IF r.id = data.commentId
    THEN [r EXCEPT !.likeCount = data.likeCount,
                   !.dislikeCount = data.dislikeCount,
                   !.isLikedByUser = (data.type = "like"),
                   !.isDislikedByUser = (data.type = "dislike")]
    ELSE r)

\* (a variant that takes every new comment for a reply of this item)
HandleNewReplyAnyParent(item, newComment) ==
  [item EXCEPT !.replies = <<newComment>> \o @]

\* handleNewReply (registered with socketService.onNewComment)
HandleNewReply(item, newComment) ==
  IF newComment.parentComment = item.currentComment.id
  THEN [item EXCEPT !.replies = <<newComment>> \o @]
  ELSE item

\* handleReplyDeleted (registered with socketService.onCommentDeleted)
HandleReplyDeleted(item, commentId) ==
  [item EXCEPT !.replies = FilterOut(@, commentId)]

\* handleCommentUpdated: { ...prev, ...updatedComment } for the item's own comment
HandleCommentUpdated(prev, updatedComment) ==
  IF updatedComment.id = prev.id THEN updatedComment ELSE prev

\* handleReplyUpdated
HandleReplyUpdated(replies, updatedComment) ==
  MapSeq(replies, LAMBDA r : IF r.id = updatedComment.id THEN updatedComment ELSE r)

\* ------------------------------------------------------------------- state
VARIABLES
  comments,     \* CommentList: comments (the top-level window), a sequence of Comments
  pagination,   \* CommentList: pagination (currentPage, totalPages, total)
  sort,         \* CommentList: sort
  loading,      \* CommentList: loading
  error,        \* CommentList: error
  items,        \* the mounted CommentItems, by key (comment id)
  fetches,      \* getComments requests in flight
  reqs,         \* reaction requests in flight
  threadReqs,   \* getReplies requests in flight
  server,       \* the service: the ids of the top-level comments it holds
  last,         \* history: the last operation and its input
  snap,         \* history: per item, the comment as it was at the last reaction click
  expectRC,     \* history: per parent, fetched reply count + created - deleted
  target,       \* history: the (page, sort) of the latest fetchComments call
  registered    \* socketService: the keys of the items whose push handlers are registered

vars == <<comments, pagination, sort, loading, error, items, fetches, reqs,
          threadReqs, server, last, snap, expectRC, target, registered>>
listVars == <<comments, pagination, sort, loading, error>>
histVars == <<snap, expectRC, target>>

Did(op, id) == last' = [op |-> op, id |-> id]
NoSnap == [taken |-> FALSE, touched |-> FALSE, comment |-> MkComment(0, NoParent, 0, 0, FALSE, FALSE, 0)]

\* The sequence s without its i-th element.
RemoveAt(s, i) == [j \in 1..(Len(s) - 1) |-> IF j < i THEN s[j] ELSE s[j + 1]]

\* ------------------------------------------------------------------ render
\* The items after a render of CommentList with comments cs and loading ld:
\* none while the spinner is shown; otherwise one per comment of the window,
\* kept (by key) when it was mounted before and new otherwise.  An item whose
\* comment prop is a new object (touched) runs its prop-sync effect.
Render(cs, ld, its, touched) ==
  IF ld THEN NoItems
  ELSE [id \in IdsOf(cs) |->
          IF id \in DOMAIN its
          THEN (IF id \in touched
                THEN [its[id] EXCEPT !.currentComment = SyncProp(@, CommentOf(cs, id))]
                ELSE its[id])
          ELSE NewItem(CommentOf(cs, id))]

\* A request whose item was unmounted completes on a dead component: its state
\* updates are dropped.  owner is the key of the item that issued it.  An item
\* that mounts registers its push handlers (the listener effects); the cleanup
\* of those effects is empty, so nothing is unregistered when an item unmounts.
Orphan(rs, its) == MapSeq(rs, LAMBDA r : [r EXCEPT !.alive = @ /\ r.owner \in DOMAIN its])

Unmounting ==
  /\ reqs' = Orphan(reqs, items')
  /\ threadReqs' = Orphan(threadReqs, items')
  /\ snap' = [id \in DOMAIN items' |-> IF id \in DOMAIN items THEN snap[id] ELSE NoSnap]
  /\ registered' = registered \cup DOMAIN items'

\* ------------------------------------------------------------ construction
\* CommentList is mounted for an authenticated user: the state of useState, and
\* the first fetchComments() of the mount effect (page 1, the initial sort).
Mounted ==
  /\ comments = << >>
  /\ pagination = [currentPage |-> 1, totalPages |-> 1, total |-> 0,
                   hasNextPage |-> FALSE, hasPrevPage |-> FALSE,
                   isFirstPage |-> TRUE, isLastPage |-> TRUE,
                   startIndex |-> 0, endIndex |-> 0, remainingItems |-> 0]
  /\ sort = "newest"
  /\ loading = TRUE
  /\ error = NoError
  /\ items = NoItems
  /\ fetches = <<[page |-> 1, sort |-> "newest", held |-> server]>>
  /\ reqs = << >>
  /\ threadReqs = << >>
  /\ last = [op |-> "mount", id |-> 0]
  /\ snap = << >>
  /\ expectRC = << >>
  /\ target = [page |-> 1, sort |-> "newest"]
  /\ registered = {}

\* ------------------------------------------------------------ fetchComments
\* fetchComments up to its await: setLoading(true), setError(null), the request.
\* times is the number of calls made in the same step; held is what the service
\* holds when the request is sent.
FetchComments(page, sortOption, times) ==
  /\ loading' = TRUE
  /\ error' = NoError
  /\ fetches' = fetches \o [i \in 1..times |->
                                 [page |-> page, sort |-> sortOption, held |-> server]]
  /\ target' = [page |-> page, sort |-> sortOption]
  /\ items' = Render(comments, TRUE, items, {})
  /\ Unmounting

\* handlePageChange, from the pagination control (rendered under the list when
\* pagination.totalPages > 1).
HandlePageChange(page) ==
  /\ ~loading /\ comments # << >> /\ pagination.totalPages > 1
  /\ Len(fetches) < MaxFetches
  /\ FetchComments(page, sort, 1)
  /\ Did("pageChange", page)
  /\ UNCHANGED <<comments, pagination, sort, server, expectRC>>

\* (a variant that keeps the current page under the new sort)
HandleSortChangeKeepingPage(newSort) ==
  /\ Len(fetches) + (IF newSort # sort THEN 2 ELSE 1) <= MaxFetches
  /\ sort' = newSort
  /\ FetchComments(pagination.currentPage, newSort, IF newSort # sort THEN 2 ELSE 1)
  /\ Did("sortChange", 0)
  /\ UNCHANGED <<comments, pagination, server, expectRC>>

\* handleSortChange: setSort(newSort) and fetchComments(1, newSort); a changed
\* sort gives fetchComments a new identity, and the effect on [fetchComments]
\* calls fetchComments() once more.
HandleSortChange(newSort) ==
  /\ Len(fetches) + (IF newSort # sort THEN 2 ELSE 1) <= MaxFetches
  /\ sort' = newSort
  /\ FetchComments(1, newSort, IF newSort # sort THEN 2 ELSE 1)
  /\ Did("sortChange", 0)
  /\ UNCHANGED <<comments, pagination, server, expectRC>>

\* backendPagination.f || fallback: the service's value when it sends one that
\* is not 0 / false, the client's own arithmetic otherwise.
OrNumber(b, f, fallback) == IF f \in DOMAIN b /\ b[f] # 0 THEN b[f] ELSE fallback
OrFlag(b, f, fallback) == IF f \in DOMAIN b /\ b[f] THEN TRUE ELSE fallback

\* (a variant whose item range starts at zero)
MapPaginationFromZero(b) ==
  [currentPage |-> b.currentPage,
   totalPages |-> b.totalPages,
   total |-> b.totalComments,
   hasNextPage |-> b.hasNextPage,
   hasPrevPage |-> b.hasPrevPage,
   isFirstPage |-> OrFlag(b, "isFirstPage", b.currentPage = 1),
   isLastPage |-> OrFlag(b, "isLastPage", b.currentPage = b.totalPages),
   startIndex |-> OrNumber(b, "startIndex", (b.currentPage - 1) * PageSize),
   endIndex |-> OrNumber(b, "endIndex", Min(b.currentPage * PageSize, b.totalComments)),
   remainingItems |-> OrNumber(b, "remainingItems",
                               Max0(b.totalComments - b.currentPage * PageSize))]

\* "Map backend pagination to frontend pagination format"
MapPagination(b) ==
  [currentPage |-> b.currentPage,
   totalPages |-> b.totalPages,
   total |-> b.totalComments,
   hasNextPage |-> b.hasNextPage,
   hasPrevPage |-> b.hasPrevPage,
   isFirstPage |-> OrFlag(b, "isFirstPage", b.currentPage = 1),
   isLastPage |-> OrFlag(b, "isLastPage", b.currentPage = b.totalPages),
   startIndex |-> OrNumber(b, "startIndex", (b.currentPage - 1) * PageSize + 1),
   endIndex |-> OrNumber(b, "endIndex", Min(b.currentPage * PageSize, b.totalComments)),
   remainingItems |-> OrNumber(b, "remainingItems",
                               Max0(b.totalComments - b.currentPage * PageSize))]

\* The request completes with a response of the service.
FetchSuccess(i, resp) ==
  /\ i \in DOMAIN fetches
  /\ fetches' = RemoveAt(fetches, i)
  /\ comments' = IF resp.success THEN resp.comments ELSE comments
  /\ pagination' = IF resp.success THEN MapPagination(resp.pagination) ELSE pagination
  /\ loading' = FALSE
  /\ items' = Render(comments', FALSE, items, IF resp.success THEN IdsOf(comments') ELSE {})
  /\ Unmounting
  /\ Did("fetchSuccess", fetches[i].page)
  /\ expectRC' = IF resp.success
                 THEN [id \in IdsOf(comments') |-> CommentOf(comments', id).replyCount]
                 ELSE expectRC
  /\ UNCHANGED <<sort, error, server, target>>

ServiceMessage == "service message"

\* (a variant without the finally block)
FetchFailStillLoading(i, hasMessage) ==
  /\ i \in DOMAIN fetches
  /\ fetches' = RemoveAt(fetches, i)
  /\ error' = IF hasMessage THEN ServiceMessage ELSE "Failed to fetch comments"
  /\ items' = Render(comments, loading, items, {})
  /\ Unmounting
  /\ Did("fetchFail", fetches[i].page)
  /\ UNCHANGED <<comments, pagination, sort, loading, server, expectRC, target>>

\* The request fails; hasMessage: the failure carries response.data.message.
FetchFail(i, hasMessage) ==
  /\ i \in DOMAIN fetches
  /\ fetches' = RemoveAt(fetches, i)
  /\ error' = IF hasMessage THEN ServiceMessage ELSE "Failed to fetch comments"
  /\ loading' = FALSE
  /\ items' = Render(comments, FALSE, items, {})
  /\ Unmounting
  /\ Did("fetchFail", fetches[i].page)
  /\ UNCHANGED <<comments, pagination, sort, server, expectRC, target>>

\* --------------------------------------------------- reactions (top level)
\* handleLike / handleDislike past the in-flight guard: setError(null) and the
\* in-flight flag; the comment itself is not touched.
\* (a variant that also patches the comment optimistically)
LikeClickedOptimistic(item) ==
  [item EXCEPT !.error = NoError, !.isLiking = TRUE,
               !.currentComment.isLikedByUser = ~@,
               !.currentComment.likeCount =
                  IF item.currentComment.isLikedByUser THEN Max0(@ - 1) ELSE @ + 1]
LikeClicked(item) == [item EXCEPT !.error = NoError, !.isLiking = TRUE]
DislikeClicked(item) == [item EXCEPT !.error = NoError, !.isDisliking = TRUE]

\* (a variant that also toggles the viewer's like when the request returns)
ReactionSettledFlipping(item, flag) ==
  IF flag = "isLiking"
  THEN [item EXCEPT !.isLiking = FALSE, !.currentComment.isLikedByUser = ~@]
  ELSE [item EXCEPT !.isDisliking = FALSE, !.currentComment.isDislikedByUser = ~@]

\* finally { setIsLiking(false) } / finally { setIsDisliking(false) }
ReactionSettled(item, flag) ==
  IF flag = "isLiking" THEN [item EXCEPT !.isLiking = FALSE]
  ELSE [item EXCEPT !.isDisliking = FALSE]

\* (a variant that only logs the failure, as the reply handlers do)
ReactionFailedSilent(item, flag, hasMessage) == ReactionSettled(item, flag)
\* catch { setError(message || 'Failed to update reaction') } and the finally
ReactionFailed(item, flag, hasMessage) ==
  [ReactionSettled(item, flag) EXCEPT
     !.error = IF hasMessage THEN ServiceMessage ELSE "Failed to update reaction"]

MkReq(id, kind, owner, flag) ==
  [id |-> id, kind |-> kind, owner |-> owner, flag |-> flag, alive |-> TRUE, phase |-> "sent"]

\* The requests for comment id that have not returned, and all its requests
\* (those whose echo is still to come included).
InFlight(id) == Cardinality({i \in DOMAIN reqs : reqs[i].id = id /\ reqs[i].phase # "responded"})
Pending(id) == Cardinality({i \in DOMAIN reqs : reqs[i].id = id})

TakeSnap(id) ==
  snap' = [snap EXCEPT ![id] = [taken |-> TRUE, touched |-> FALSE,
                                comment |-> items[id].currentComment]]

\* handleLike of the item of a top-level comment.
HandleLike(id) ==
  /\ id \in DOMAIN items
  /\ Pending(id) < MaxInFlight
  /\ IF items[id].isLiking \/ items[id].isDisliking
     THEN UNCHANGED <<items, reqs, snap>>
     ELSE /\ items' = [items EXCEPT ![id] = LikeClicked(@)]
          /\ reqs' = Append(reqs, MkReq(id, IF items[id].currentComment.isLikedByUser
                                            THEN "remove" ELSE "like", id, "isLiking"))
          /\ TakeSnap(id)
  /\ Did("handleLike", id)
  /\ UNCHANGED <<listVars, fetches, threadReqs, server, expectRC, target, registered>>

\* handleDislike of the item of a top-level comment.
HandleDislike(id) ==
  /\ id \in DOMAIN items
  /\ Pending(id) < MaxInFlight
  /\ IF items[id].isLiking \/ items[id].isDisliking
     THEN UNCHANGED <<items, reqs, snap>>
     ELSE /\ items' = [items EXCEPT ![id] = DislikeClicked(@)]
          /\ reqs' = Append(reqs, MkReq(id, IF items[id].currentComment.isDislikedByUser
                                            THEN "remove" ELSE "dislike", id, "isDisliking"))
          /\ TakeSnap(id)
  /\ Did("handleDislike", id)
  /\ UNCHANGED <<listVars, fetches, threadReqs, server, expectRC, target, registered>>

\* ----------------------------------------------------- reactions (replies)
ReplyShown(pid, rid) ==
  /\ pid \in DOMAIN items
  /\ items[pid].showReplies
  /\ rid \in IdsOf(items[pid].replies)

\* handleReplyLike: no guard and no flag, only the request.
HandleReplyLike(pid, rid) ==
  /\ ReplyShown(pid, rid)
  /\ Pending(rid) < MaxInFlight
  /\ reqs' = Append(reqs, MkReq(rid, IF CommentOf(items[pid].replies, rid).isLikedByUser
                                     THEN "remove" ELSE "like", pid, "none"))
  /\ Did("handleReplyLike", rid)
  /\ UNCHANGED <<listVars, items, fetches, threadReqs, server, histVars, registered>>

\* handleReplyDislike
HandleReplyDislike(pid, rid) ==
  /\ ReplyShown(pid, rid)
  /\ Pending(rid) < MaxInFlight
  /\ reqs' = Append(reqs, MkReq(rid, IF CommentOf(items[pid].replies, rid).isDislikedByUser
                                     THEN "remove" ELSE "dislike", pid, "none"))
  /\ Did("handleReplyDislike", rid)
  /\ UNCHANGED <<listVars, items, fetches, threadReqs, server, histVars, registered>>

\* ------------------------------------------------ the service and requests
\* A reaction request is "sent" until the service answers.  An accepted request
\* has two consequences at the client, in either order: the awaited call
\* returns, and the broadcast 'commentReaction' event (the echo) arrives.
\*   sent -> echoed -> (removed)      the echo first, then the return
\*   sent -> responded -> (removed)   the return first, then the echo
\*   sent -> (removed)                the call throws: no echo

\* The awaited call of an accepted request returns.
ReqSuccess(i) ==
  /\ i \in DOMAIN reqs
  /\ reqs[i].kind \in Kinds
  /\ reqs[i].phase \in {"sent", "echoed"}
  /\ reqs' = IF reqs[i].phase = "echoed" THEN RemoveAt(reqs, i)
             ELSE [reqs EXCEPT ![i].phase = "responded"]
  /\ items' = IF reqs[i].alive /\ reqs[i].flag # "none"
              THEN [items EXCEPT ![reqs[i].owner] = ReactionSettled(@, reqs[i].flag)]
              ELSE items
  /\ Did("reqSuccess", reqs[i].id)
  /\ UNCHANGED <<listVars, fetches, threadReqs, server, histVars, registered>>

\* The awaited call throws (network failure or rejection).
ReqFail(i, hasMessage) ==
  /\ i \in DOMAIN reqs
  /\ reqs[i].kind \in Kinds
  /\ reqs[i].phase = "sent"
  /\ reqs' = RemoveAt(reqs, i)
  /\ items' = IF reqs[i].alive /\ reqs[i].flag # "none"
              THEN [items EXCEPT ![reqs[i].owner] = ReactionFailed(@, reqs[i].flag, hasMessage)]
              ELSE items
  /\ Did("reqFail", reqs[i].id)
  /\ UNCHANGED <<listVars, fetches, threadReqs, server, histVars, registered>>

\* ----------------------------------------------------- ReactionChanged push
\* A 'commentReaction' event reaches every registered handler: the list's, and
\* handleCommentReaction and handleReplyReaction of every mounted item; the
\* item of the comment then re-renders with a new comment prop.
ReactionItems(its, data) ==
  [id \in DOMAIN its |->
     [its[id] EXCEPT !.currentComment = HandleCommentReaction(@, data),
                     !.replies = HandleReplyReaction(@, data)]]

ReactedComments(cs, data) == OnCommentReaction(cs, data)
ReactedItems(cs, ld, its, data) ==
  Render(OnCommentReaction(cs, data), ld, ReactionItems(its, data),
         {data.commentId} \cap IdsOf(cs))

ApplyReaction(data) ==
  /\ comments' = ReactedComments(comments, data)
  /\ items' = ReactedItems(comments, loading, items, data)
  /\ snap' = [id \in DOMAIN snap |->
                IF id = data.commentId THEN [snap[id] EXCEPT !.touched = TRUE] ELSE snap[id]]
  /\ UNCHANGED <<pagination, sort, loading, error, fetches, threadReqs, server, expectRC, target,
                 registered>>

\* A reaction that is not the echo of a request of this client: another
\* user's (self = FALSE), or this user's from another session (self = TRUE).
PushReaction(id, self, type, lc, dc) ==
  /\ ApplyReaction(MkReaction(id, self, type, lc, dc))
  /\ Did(IF self THEN "pushOwnReaction" ELSE "pushReaction", id)
  /\ UNCHANGED reqs

\* The echo of this client's own accepted request i.
DeliverEcho(i, lc, dc) ==
  /\ i \in DOMAIN reqs
  /\ reqs[i].kind \in Kinds
  /\ reqs[i].phase \in {"sent", "responded"}
  /\ reqs' = IF reqs[i].phase = "responded" THEN RemoveAt(reqs, i)
             ELSE [reqs EXCEPT ![i].phase = "echoed"]
  /\ ApplyReaction(MkReaction(reqs[i].id, TRUE, reqs[i].kind, lc, dc))
  /\ Did("echo", reqs[i].id)

\* ------------------------------------------------------------ reply threads

\* loadReplies up to its await: setLoadingReplies(true)
ThreadStarted(item) == [item EXCEPT !.loadingReplies = TRUE]

\* loadReplies after a successful await: page 1 replaces, a later page is
\* appended; then hasMoreReplies, repliesPage and the finally.
ThreadLoaded(item, page, resp) ==
  [item EXCEPT !.replies = IF page = 1 THEN resp.replies ELSE @ \o resp.replies,
               !.hasMoreReplies = resp.hasNext,
               !.repliesPage = page,
               !.loadingReplies = FALSE]

\* (a variant that counts the failed page as loaded)
ThreadFailedSkipping(item) ==
  [item EXCEPT !.loadingReplies = FALSE, !.repliesPage = @ + 1]

\* loadReplies after a failed await: console.error and the finally.
ThreadFailed(item) == [item EXCEPT !.loadingReplies = FALSE]

\* held: what the service holds when the request is sent.
LoadReplies(id, page) ==
  threadReqs' = Append(threadReqs, [owner |-> id, page |-> page, alive |-> TRUE,
                                    held |-> server])

\* handleReply (the Reply button)
HandleReply(id) ==
  /\ id \in DOMAIN items
  /\ Len(threadReqs) < MaxThreadReqs
  /\ IF ~items[id].showReplyForm /\ ~items[id].showReplies
     THEN /\ items' = [items EXCEPT ![id] = [ThreadStarted(@) EXCEPT !.showReplyForm = TRUE,
                                                                      !.showReplies = TRUE]]
          /\ LoadReplies(id, 1)
     ELSE /\ items' = [items EXCEPT ![id].showReplyForm = ~@]
          /\ UNCHANGED threadReqs
  /\ Did("handleReply", id)
  /\ UNCHANGED <<listVars, fetches, reqs, server, histVars, registered>>

\* handleToggleReplies (the toggle is rendered when replies.length > 0 and is
\* disabled while loadingReplies)
HandleToggleReplies(id) ==
  /\ id \in DOMAIN items
  /\ items[id].replies # << >> /\ ~items[id].loadingReplies
  /\ IF ~items[id].showReplies /\ Len(items[id].replies) = 0
     THEN /\ Len(threadReqs) < MaxThreadReqs
          /\ items' = [items EXCEPT ![id] = [ThreadStarted(@) EXCEPT !.showReplies = ~@]]
          /\ LoadReplies(id, 1)
     ELSE /\ items' = [items EXCEPT ![id].showReplies = ~@]
          /\ UNCHANGED threadReqs
  /\ Did("handleToggleReplies", id)
  /\ UNCHANGED <<listVars, fetches, reqs, server, histVars, registered>>

\* handleLoadMoreReplies (the button is rendered in a shown, non-empty thread
\* with hasMoreReplies and is disabled while loadingReplies)
HandleLoadMoreReplies(id) ==
  /\ id \in DOMAIN items
  /\ items[id].showReplies /\ items[id].replies # << >>
  /\ items[id].hasMoreReplies /\ ~items[id].loadingReplies
  /\ Len(threadReqs) < MaxThreadReqs
  /\ items' = [items EXCEPT ![id] = ThreadStarted(@)]
  /\ LoadReplies(id, items[id].repliesPage + 1)
  /\ Did("handleLoadMoreReplies", id)
  /\ UNCHANGED <<listVars, fetches, reqs, server, histVars, registered>>

\* getReplies returns resp = [replies, hasNext].
RepliesSuccess(i, resp) ==
  /\ i \in DOMAIN threadReqs
  /\ threadReqs' = RemoveAt(threadReqs, i)
  /\ items' = IF threadReqs[i].alive
              THEN [items EXCEPT ![threadReqs[i].owner] = ThreadLoaded(@, threadReqs[i].page, resp)]
              ELSE items
  /\ Did("repliesSuccess", threadReqs[i].owner)
  /\ UNCHANGED <<listVars, fetches, reqs, server, histVars, registered>>

\* getReplies throws.
RepliesFail(i) ==
  /\ i \in DOMAIN threadReqs
  /\ threadReqs' = RemoveAt(threadReqs, i)
  /\ items' = IF threadReqs[i].alive
              THEN [items EXCEPT ![threadReqs[i].owner] = ThreadFailed(@)]
              ELSE items
  /\ Did("repliesFail", threadReqs[i].owner)
  /\ UNCHANGED <<listVars, fetches, reqs, server, histVars, registered>>

\* ------------------------------------------- creation and deletion pushes
\* expectRC after the window changed to cs: a comment that entered the window
\* starts from its own replyCount.
Expect(cs, f) ==
  [id \in IdsOf(cs) |-> IF id \in DOMAIN f THEN f[id] ELSE CommentOf(cs, id).replyCount]

\* A 'newComment' event: the list's onNewComment handler and handleNewReply of
\* every mounted item.
PushNewComment(newComment) ==
  /\ comments' = OnNewComment(comments, newComment)
  /\ items' = Render(comments', loading,
                     [id \in DOMAIN items |-> HandleNewReply(items[id], newComment)], {})
  /\ Unmounting
  /\ expectRC' = Expect(comments', expectRC)
  /\ server' = IF newComment.parentComment = NoParent THEN server \cup {newComment.id} ELSE server
  /\ Did("newComment", newComment.id)
  /\ UNCHANGED <<pagination, sort, loading, error, fetches, target>>

\* A 'newReply' event: the list's onNewReply handler (no item listens to it).
PushNewReply(newComment) ==
  /\ comments' = OnNewReply(comments, newComment)
  /\ items' = Render(comments', loading, items, {newComment.parentComment} \cap IdsOf(comments))
  /\ Unmounting
  /\ expectRC' = [id \in DOMAIN expectRC |->
                    IF id = newComment.parentComment THEN expectRC[id] + 1 ELSE expectRC[id]]
  /\ Did("newReply", newComment.id)
  /\ UNCHANGED <<pagination, sort, loading, error, fetches, server, target>>

\* The parent of the comment commentId in the window, or NoParent.
WindowParent(cs, commentId) ==
  IF commentId \in IdsOf(cs) THEN CommentOf(cs, commentId).parentComment ELSE NoParent

\* (a variant that decrements the count of the parent named by the event,
\* without a floor)
PushCommentDeletedCounting(commentId, parent) ==
  /\ comments' = FilterOut(MapSeq(comments, LAMBDA c : IF c.id = parent
                                                       THEN [c EXCEPT !.replyCount = @ - 1]
                                                       ELSE c),
                           commentId)
  /\ items' = Render(comments', loading,
                     [id \in DOMAIN items |-> HandleReplyDeleted(items[id], commentId)],
                     {parent} \cap IdsOf(comments'))
  /\ Unmounting
  /\ expectRC' = [id \in IdsOf(comments') |->
                    IF id = parent THEN expectRC[id] - 1 ELSE expectRC[id]]
  /\ server' = server \ {commentId}
  /\ Did("commentDeleted", commentId)
  /\ UNCHANGED <<pagination, sort, loading, error, fetches, target>>

\* A 'commentDeleted' event for the comment commentId, a reply of parent (or a
\* top-level comment, parent = NoParent): the list's onCommentDeleted handler
\* and handleReplyDeleted of every mounted item.
PushCommentDeleted(commentId, parent) ==
  /\ comments' = OnCommentDeleted(comments, commentId)
  /\ items' = Render(comments', loading,
                     [id \in DOMAIN items |-> HandleReplyDeleted(items[id], commentId)],
                     {WindowParent(comments, commentId)} \cap IdsOf(comments'))
  /\ Unmounting
  /\ expectRC' = [id \in IdsOf(comments') |->
                    IF id = parent THEN expectRC[id] - 1 ELSE expectRC[id]]
  /\ server' = server \ {commentId}
  /\ Did("commentDeleted", commentId)
  /\ UNCHANGED <<pagination, sort, loading, error, fetches, target>>

\* A 'deletedComment' event: the list's second handler only.
PushDeletedComment(commentId, parent) ==
  /\ comments' = OnCommentDeleted(comments, commentId)
  /\ items' = Render(comments', loading, items,
                     {WindowParent(comments, commentId)} \cap IdsOf(comments'))
  /\ Unmounting
  /\ expectRC' = [id \in IdsOf(comments') |->
                    IF id = parent THEN expectRC[id] - 1 ELSE expectRC[id]]
  /\ server' = server \ {commentId}
  /\ Did("deletedComment", commentId)
  /\ UNCHANGED <<pagination, sort, loading, error, fetches, target>>

\* A 'commentUpdated' event: the list's onCommentUpdated handler, and
\* handleCommentUpdated and handleReplyUpdated of every mounted item.
PushCommentUpdated(updatedComment) ==
  /\ comments' = OnCommentUpdated(comments, updatedComment)
  /\ items' = Render(comments', loading,
                     [id \in DOMAIN items |->
                        [items[id] EXCEPT
                           !.currentComment = HandleCommentUpdated(@, updatedComment),
                           !.replies = HandleReplyUpdated(@, updatedComment)]],
                     {updatedComment.id} \cap IdsOf(comments))
  /\ snap' = [id \in DOMAIN snap |->
                IF id = updatedComment.id THEN [snap[id] EXCEPT !.touched = TRUE] ELSE snap[id]]
  /\ Did("commentUpdated", updatedComment.id)
  /\ UNCHANGED <<pagination, sort, loading, error, fetches, reqs, threadReqs, server,
                 expectRC, target, registered>>

\* ======================================== Spec: reactions on a comment
\* One top-level comment, C1, in the window.
C1 == 1
R1 == 101

\* What the service may report of a comment: never both reactions of the viewer.
OwnStates == {<<FALSE, FALSE>>, <<TRUE, FALSE>>, <<FALSE, TRUE>>}

OnePage == [currentPage |-> 1, totalPages |-> 1, totalComments |-> 1,
            hasNextPage |-> FALSE, hasPrevPage |-> FALSE]

\* The counts the service reports include the viewer's own reaction.
Reported == {r \in [lc : Counts, dc : Counts, own : OwnStates] :
               (r.own[1] => r.lc >= 1) /\ (r.own[2] => r.dc >= 1)}
\* The counts of a ReactionChanged payload include the reaction it reports.
Payloads(type) == {r \in [lc : Counts, dc : Counts] :
                     (type = "like" => r.lc >= 1) /\ (type = "dislike" => r.dc >= 1)}

ReactResponses ==
  {[success |-> TRUE,
    comments |-> <<MkComment(C1, NoParent, r.lc, r.dc, r.own[1], r.own[2], 1)>>,
    pagination |-> OnePage] : r \in Reported}

ReplyResponses ==
  {[replies |-> <<MkComment(R1, C1, r.lc, r.dc, r.own[1], r.own[2], 0)>>,
    hasNext |-> FALSE] : r \in Reported}

Init == server = {C1} /\ Mounted

Next ==
  \/ \E i \in DOMAIN fetches, resp \in ReactResponses : FetchSuccess(i, resp)
  \/ HandleLike(C1)
  \/ HandleDislike(C1)
  \/ \E i \in DOMAIN reqs : ReqSuccess(i)
  \/ \E i \in DOMAIN reqs, hasMessage \in BOOLEAN : ReqFail(i, hasMessage)
  \/ \E type \in Kinds : \E p \in Payloads(type) : PushReaction(C1, FALSE, type, p.lc, p.dc)
  \/ \E i \in DOMAIN reqs : \E p \in Payloads(reqs[i].kind) : DeliverEcho(i, p.lc, p.dc)

Spec == Init /\ [][Next]_vars

\* ================================= SpecThread: reactions on a loaded reply
\* The thread of C1 holds one reply, R1.
ThreadResponse ==
  [success |-> TRUE, comments |-> <<MkComment(C1, NoParent, 0, 0, FALSE, FALSE, 1)>>,
   pagination |-> OnePage]

NextThread ==
  \/ \E i \in DOMAIN fetches : FetchSuccess(i, ThreadResponse)
  \/ HandleReply(C1)
  \/ HandleToggleReplies(C1)
  \/ \E i \in DOMAIN threadReqs, resp \in ReplyResponses : RepliesSuccess(i, resp)
  \/ \E i \in DOMAIN threadReqs : RepliesFail(i)
  \/ HandleReplyLike(C1, R1)
  \/ HandleReplyDislike(C1, R1)
  \/ \E i \in DOMAIN reqs : ReqSuccess(i)
  \/ \E i \in DOMAIN reqs, hasMessage \in BOOLEAN : ReqFail(i, hasMessage)
  \/ \E type \in Kinds : \E p \in Payloads(type) : PushReaction(R1, FALSE, type, p.lc, p.dc)
  \/ \E i \in DOMAIN reqs : \E p \in Payloads(reqs[i].kind) : DeliverEcho(i, p.lc, p.dc)

SpecThread == Init /\ [][NextThread]_vars

\* ============================ SpecEvents: ReactionChanged events, any actor
\* C1 and its reply R1; reactions of other users and of this user's other
\* sessions arrive in any order.
NextEvents ==
  \/ \E i \in DOMAIN fetches, resp \in ReactResponses : FetchSuccess(i, resp)
  \/ HandleReply(C1)
  \/ HandleToggleReplies(C1)
  \/ \E i \in DOMAIN threadReqs, resp \in ReplyResponses : RepliesSuccess(i, resp)
  \/ \E id \in {C1, R1}, self \in BOOLEAN, type \in Kinds : \E p \in Payloads(type) :
        PushReaction(id, self, type, p.lc, p.dc)

SpecEvents == Init /\ [][NextEvents]_vars

\* ================================= SpecReplies: the reply count of a parent
\* C1 is in the window; replies R1 and R2 of C1 are created and deleted by
\* other users while its thread is collapsed, loading or loaded.
R2 == 102
Reply(r) == MkComment(r, C1, 0, 0, FALSE, FALSE, 0)

CountResponses ==
  {[success |-> TRUE, comments |-> <<MkComment(C1, NoParent, 0, 0, FALSE, FALSE, rc)>>,
    pagination |-> OnePage] : rc \in 0..MaxReplyCount}

ThreadPages ==
  {[replies |-> rs, hasNext |-> FALSE] : rs \in {<< >>, <<Reply(R1)>>, <<Reply(R2), Reply(R1)>>}}

\* Bounds on what the environment sends.
CountRoom == \A i \in DOMAIN comments : comments[i].replyCount < MaxReplyCount + MaxPush
ThreadRoom == \A id \in DOMAIN items : Len(items[id].replies) < 2 + MaxPush
Deletable(parent) == parent \in DOMAIN expectRC /\ expectRC[parent] > 0

NextReplies ==
  \/ \E i \in DOMAIN fetches, resp \in CountResponses : FetchSuccess(i, resp)
  \/ HandleReply(C1)
  \/ HandleToggleReplies(C1)
  \/ \E i \in DOMAIN threadReqs, resp \in ThreadPages : RepliesSuccess(i, resp)
  \/ \E r \in {R1, R2} : CountRoom /\ PushNewReply(Reply(r))
  \/ \E r \in {R1, R2} : ThreadRoom /\ PushNewComment(Reply(r))
  \/ \E r \in {R1, R2} : Deletable(C1) /\ PushCommentDeleted(r, C1)
  \/ \E r \in {R1, R2} : Deletable(C1) /\ PushDeletedComment(r, C1)

SpecReplies == Init /\ [][NextReplies]_vars

\* ======================================== SpecWindow: the top-level window
\* The service holds more than one page of top-level comments, numbered in
\* the order of their creation; other users create more.
RECURSIVE Descending(_)
Descending(S) ==
  IF S = {} THEN << >>
  ELSE LET m == CHOOSE x \in S : \A y \in S : y <= x IN <<m>> \o Descending(S \ {m})
RECURSIVE Ascending(_)
Ascending(S) ==
  IF S = {} THEN << >>
  ELSE LET m == CHOOSE x \in S : \A y \in S : x <= y IN <<m>> \o Ascending(S \ {m})

TopLevel(id) == MkComment(id, NoParent, 0, 0, FALSE, FALSE, 0)

\* The response of getComments({page, limit: 10, sort}) when the service holds
\* the top-level comments srv: newest first under "newest", oldest first under
\* the count-based sorts (all counts are equal here).
ServerPage(srv, page, sortOption) ==
  LET order == IF sortOption = "newest" THEN Descending(srv) ELSE Ascending(srv)
      total == Cardinality(srv)
      ids == SubSeq(order, (page - 1) * PageSize + 1, Min(page * PageSize, total))
  IN [success |-> TRUE,
      comments |-> [i \in DOMAIN ids |-> TopLevel(ids[i])],
      pagination |-> [currentPage |-> page,
                      totalPages |-> (total + PageSize - 1) \div PageSize,
                      totalComments |-> total,
                      hasNextPage |-> page * PageSize < total,
                      hasPrevPage |-> page > 1]]

InitWindow == server = 1..(PageSize + 1) /\ Mounted

NextWindow ==
  \/ \E i \in DOMAIN fetches : FetchSuccess(i, ServerPage(server, fetches[i].page, fetches[i].sort))
  \/ \E i \in DOMAIN fetches, hasMessage \in BOOLEAN : FetchFail(i, hasMessage)
  \/ \E page \in 1..pagination.totalPages : HandlePageChange(page)
  \/ \E newSort \in Sorts : HandleSortChange(newSort)
  \/ /\ Cardinality(server) < PageSize + 1 + MaxPush
     /\ PushNewComment(TopLevel(Cardinality(server) + 1))

SpecWindow == InitWindow /\ [][NextWindow]_vars

\* ================================ SpecExpand: expanding a thread of C1
\* The service holds C1 and its replies R1 and R2; other users add replies
\* while the thread of C1 is collapsed, loading or loaded.
R3 == 103
ThreadSize == 10     \* getReplies(..., { page, limit: 10 })

RepliesHeld(srv) == {id \in srv : id >= R1}

ParentResponse(srv) ==
  [success |-> TRUE,
   comments |-> <<MkComment(C1, NoParent, 0, 0, FALSE, FALSE, Cardinality(RepliesHeld(srv)))>>,
   pagination |-> OnePage]

\* The response of getReplies(C1, {page, limit: 10}) when the service holds the
\* replies S: newest first.
ThreadPage(S, page) ==
  LET order == Descending(S)
      n == Cardinality(S)
      ids == SubSeq(order, (page - 1) * ThreadSize + 1, Min(page * ThreadSize, n))
  IN [replies |-> [i \in DOMAIN ids |-> Reply(ids[i])],
      hasNext |-> page * ThreadSize < n]

\* The service answers request i at some moment between its sending and its
\* completion: with the replies it held at the sending and any of those
\* created since.
Answers(i) ==
  {ThreadPage(S, threadReqs[i].page) :
     S \in {RepliesHeld(threadReqs[i].held) \cup X :
              X \in SUBSET (RepliesHeld(server) \ RepliesHeld(threadReqs[i].held))}}

\* Another user creates a reply: the service announces it with a 'newReply'
\* event (the list's onNewReply) and a 'newComment' event carrying the reply
\* (handleNewReply of every mounted item), delivered one after the other.
PushReplyCreated(newComment) ==
  /\ comments' = OnNewComment(OnNewReply(comments, newComment), newComment)
  /\ items' = Render(comments', loading,
                     [id \in DOMAIN items |-> HandleNewReply(items[id], newComment)],
                     {newComment.parentComment} \cap IdsOf(comments))
  /\ Unmounting
  /\ expectRC' = [id \in DOMAIN expectRC |->
                    IF id = newComment.parentComment THEN expectRC[id] + 1 ELSE expectRC[id]]
  /\ server' = server \cup {newComment.id}
  /\ Did("replyCreated", newComment.id)
  /\ UNCHANGED <<pagination, sort, loading, error, fetches, target>>

\* The next reply of C1: replies are numbered in the order of their creation.
NextReply == Reply(R1 + Cardinality(RepliesHeld(server)))
ExpandRoom == Cardinality(RepliesHeld(server)) < 2 + MaxPush

InitExpand == server = {C1, R1, R2} /\ Mounted

NextExpand ==
  \/ \E i \in DOMAIN fetches : FetchSuccess(i, ParentResponse(server))
  \/ HandleReply(C1)
  \/ HandleToggleReplies(C1)
  \/ \E i \in DOMAIN threadReqs : \E resp \in Answers(i) : RepliesSuccess(i, resp)
  \/ \E i \in DOMAIN threadReqs : RepliesFail(i)
  \/ ExpandRoom /\ PushReplyCreated(NextReply)

SpecExpand == InitExpand /\ [][NextExpand]_vars

\* ==================================== SpecMore: the pages of a long thread
\* The service holds C1 and one reply more than a page of its thread; this
\* user and other users add replies.

\* handleReplyCreated, from the reply form: the new reply is prepended and the
\* thread shown.
ReplyCreatedLocally(item, newReply) ==
  [item EXCEPT !.replies = <<newReply>> \o @, !.showReplyForm = FALSE, !.showReplies = TRUE]

\* The reply form of item id created newReply: handleReplyCreated, whose
\* onCommentUpdate() is the list's fetchComments() (page 1, the current sort).
HandleReplyCreated(id, newReply) ==
  /\ id \in DOMAIN items /\ items[id].showReplyForm
  /\ Len(fetches) < MaxFetches
  /\ FetchComments(1, sort, 1)
  /\ items' = Render(comments, TRUE,
                     [items EXCEPT ![id] = ReplyCreatedLocally(@, newReply)], {})
  /\ server' = server \cup {newReply.id}
  /\ expectRC' = [p \in DOMAIN expectRC |->
                    IF p = newReply.parentComment THEN expectRC[p] + 1 ELSE expectRC[p]]
  /\ Did("handleReplyCreated", newReply.id)
  /\ UNCHANGED <<comments, pagination, sort>>

\* The service answers fetch i at some moment between its sending and its
\* completion.
FetchAnswers(i) ==
  {ParentResponse({C1} \cup S) :
     S \in {RepliesHeld(fetches[i].held) \cup X :
              X \in SUBSET (RepliesHeld(server) \ RepliesHeld(fetches[i].held))}}

MoreRoom == Cardinality(RepliesHeld(server)) < ThreadSize + 1 + MaxPush

InitMore == server = {C1} \cup (R1..(R1 + ThreadSize)) /\ Mounted

NextMore ==
  \/ \E i \in DOMAIN fetches : \E resp \in FetchAnswers(i) : FetchSuccess(i, resp)
  \/ HandleReply(C1)
  \/ HandleToggleReplies(C1)
  \/ HandleLoadMoreReplies(C1)
  \/ \E i \in DOMAIN threadReqs : \E resp \in Answers(i) : RepliesSuccess(i, resp)
  \/ MoreRoom /\ PushReplyCreated(NextReply)
  \/ MoreRoom /\ HandleReplyCreated(C1, NextReply)

SpecMore == InitMore /\ [][NextMore]_vars

\* ============================= SpecFloor: reply deletions, repeated or late
\* Deletion events of replies of C1 arrive in any number and order, also when
\* the parent's count is zero.
FloorRoom == \A id \in DOMAIN expectRC : expectRC[id] > 0 - MaxPush

NextFloor ==
  \/ \E i \in DOMAIN fetches, resp \in CountResponses : FetchSuccess(i, resp)
  \/ HandleReply(C1)
  \/ \E i \in DOMAIN threadReqs, resp \in ThreadPages : RepliesSuccess(i, resp)
  \/ \E r \in {R1, R2} : CountRoom /\ PushNewReply(Reply(r))
  \/ \E r \in {R1, R2} : FloorRoom /\ PushCommentDeleted(r, C1)
  \/ \E r \in {R1, R2} : FloorRoom /\ PushDeletedComment(r, C1)

SpecFloor == Init /\ [][NextFloor]_vars

\* ====================================== SpecDelete: deletions in the window
\* Other users delete top-level comments while a page of the window is shown.
DeleteRoom == Cardinality(server) > PageSize + 1 - MaxPush

NextDelete ==
  \/ \E i \in DOMAIN fetches : FetchSuccess(i, ServerPage(server, fetches[i].page, fetches[i].sort))
  \/ \E page \in 1..pagination.totalPages : HandlePageChange(page)
  \/ \E id \in server : DeleteRoom /\ PushCommentDeleted(id, NoParent)
  \/ \E id \in server : DeleteRoom /\ PushDeletedComment(id, NoParent)

SpecDelete == InitWindow /\ [][NextDelete]_vars

\* ================================== SpecRefetch: page and sort changes
\* The user changes page and sort while earlier fetches are still in flight;
\* the service holds the same comments throughout.
NextRefetch ==
  \/ \E i \in DOMAIN fetches : FetchSuccess(i, ServerPage(server, fetches[i].page, fetches[i].sort))
  \/ \E page \in 1..pagination.totalPages : HandlePageChange(page)
  \/ \E newSort \in Sorts : HandleSortChange(newSort)

SpecRefetch == InitWindow /\ [][NextRefetch]_vars

\* ========================== SpecStrangers: events about unknown comments
\* C1 and its reply R1 are known to the client once fetched; CX is a top-level
\* comment of another page and RX a reply of CX.  Events about all four arrive
\* in any order.
CX == 9
RX == 109

Updates ==
  {MkComment(C1, NoParent, 1, 0, TRUE, FALSE, 1), MkComment(R1, C1, 0, 1, FALSE, TRUE, 0),
   MkComment(CX, NoParent, 1, 0, FALSE, FALSE, 1), MkComment(RX, CX, 1, 0, FALSE, FALSE, 0)}

Strangers == {MkComment(RX, CX, 0, 0, FALSE, FALSE, 0)}
Gone == {MkComment(CX, NoParent, 0, 0, FALSE, FALSE, 0), MkComment(RX, CX, 0, 0, FALSE, FALSE, 0)}

NextStrangers ==
  \/ \E i \in DOMAIN fetches : FetchSuccess(i, ThreadResponse)
  \/ HandleReply(C1)
  \/ HandleToggleReplies(C1)
  \/ \E i \in DOMAIN threadReqs, resp \in ReplyResponses : RepliesSuccess(i, resp)
  \/ \E u \in Updates : PushCommentUpdated(u)
  \/ \E id \in {CX, RX}, self \in BOOLEAN, type \in Kinds : \E p \in Payloads(type) :
        PushReaction(id, self, type, p.lc, p.dc)
  \/ \E newComment \in Strangers : PushNewReply(newComment)
  \/ \E newComment \in Strangers : PushNewComment(newComment)
  \/ \E c \in Gone : PushCommentDeleted(c.id, c.parentComment)
  \/ \E c \in Gone : PushDeletedComment(c.id, c.parentComment)
  \/ Deletable(C1) /\ PushCommentDeleted(R1, C1)

SpecStrangers == Init /\ [][NextStrangers]_vars

\* ================= SpecOwn: this client's own creations, deletions, reactions
\* The user reacts to C1, submits the top-level comment C2 and deletes comments
\* of the window.  Each accepted request is followed by its completion callback
\* and by the push event describing it (its echo), in either order.
C2 == 2

\* The window and the items, as the completion callback of request r leaves them.
Returned(r, st) ==
  CASE r.kind = "create" ->
         LET cs == HandleCommentCreated(st.comments, TopLevel(r.id))
         IN  [comments |-> cs, items |-> Render(cs, loading, st.items, {})]
    [] r.kind = "delete" ->
         LET cs == HandleCommentDeleted(st.comments, r.id)
         IN  [comments |-> cs, items |-> Render(cs, loading, st.items, {})]
    [] OTHER ->
         [comments |-> st.comments,
          items |-> IF r.alive /\ r.owner \in DOMAIN st.items /\ r.flag # "none"
                    THEN [st.items EXCEPT ![r.owner] = ReactionSettled(@, r.flag)]
                    ELSE st.items]

\* The window and the items, as the push event describing request r leaves them
\* (p: the counts of a ReactionChanged payload).
Echoed(r, st, p) ==
  CASE r.kind = "create" ->
         LET cs == OnNewComment(st.comments, TopLevel(r.id))
         IN  [comments |-> cs,
              items |-> Render(cs, loading,
                               [id \in DOMAIN st.items |->
                                  HandleNewReply(st.items[id], TopLevel(r.id))], {})]
    [] r.kind = "delete" ->
         LET cs == OnCommentDeleted(st.comments, r.id)
         IN  [comments |-> cs,
              items |-> Render(cs, loading,
                               [id \in DOMAIN st.items |->
                                  HandleReplyDeleted(st.items[id], r.id)], {})]
    [] OTHER ->
         LET data == MkReaction(r.id, TRUE, r.kind, p.lc, p.dc)
         IN  [comments |-> ReactedComments(st.comments, data),
              items |-> ReactedItems(st.comments, loading, st.items, data)]

Now == [comments |-> comments, items |-> items]
NoCounts == [lc |-> 0, dc |-> 0]

\* The user submits the form: createComment is sent.
CreateComment(newComment) ==
  /\ newComment.id \notin server \cup IdsOf(comments)
  /\ Pending(newComment.id) = 0
  /\ reqs' = Append(reqs, MkReq(newComment.id, "create", NoParent, "none"))
  /\ Did("createComment", newComment.id)
  /\ UNCHANGED <<listVars, items, fetches, threadReqs, server, histVars, registered>>

\* handleDelete past the confirmation, up to its await; the delete button is
\* disabled while the item deletes or reacts.
DeleteClicked(item) == [item EXCEPT !.error = NoError, !.isDeleting = TRUE]
HandleDelete(id) ==
  /\ id \in DOMAIN items
  /\ ~(items[id].isDeleting \/ items[id].isLiking \/ items[id].isDisliking)
  /\ items' = [items EXCEPT ![id] = DeleteClicked(@)]
  /\ reqs' = Append(reqs, MkReq(id, "delete", id, "isDeleting"))
  /\ Did("handleDelete", id)
  /\ UNCHANGED <<listVars, fetches, threadReqs, server, histVars, registered>>

\* The bookkeeping shared by the completions and echoes of create and delete:
\* rs is what remains in flight, st the window and items after the step.
OwnStep(rs, st, srv) ==
  /\ comments' = st.comments
  /\ items' = st.items
  /\ reqs' = Orphan(rs, items')
  /\ threadReqs' = Orphan(threadReqs, items')
  /\ snap' = [id \in DOMAIN items' |-> IF id \in DOMAIN items THEN snap[id] ELSE NoSnap]
  /\ registered' = registered \cup DOMAIN items'
  /\ expectRC' = Expect(comments', expectRC)
  /\ server' = srv
  /\ UNCHANGED <<pagination, sort, loading, error, fetches, target>>

Accepted(r) == IF r.kind = "create" THEN server \cup {r.id} ELSE server \ {r.id}

\* createComment / deleteComment resolves: the form calls handleCommentCreated,
\* handleDelete calls handleCommentDeleted (also when its item is gone).
OwnReturned(i) ==
  /\ i \in DOMAIN reqs
  /\ reqs[i].kind \in {"create", "delete"}
  /\ reqs[i].phase \in {"sent", "echoed"}
  /\ OwnStep(IF reqs[i].phase = "echoed" THEN RemoveAt(reqs, i)
             ELSE [reqs EXCEPT ![i].phase = "responded"],
             Returned(reqs[i], Now), Accepted(reqs[i]))
  /\ Did(IF reqs[i].kind = "create" THEN "createReturned" ELSE "deleteReturned", reqs[i].id)

\* The 'newComment' / 'commentDeleted' event describing this client's request.
OwnEchoed(i) ==
  /\ i \in DOMAIN reqs
  /\ reqs[i].kind \in {"create", "delete"}
  /\ reqs[i].phase \in {"sent", "responded"}
  /\ OwnStep(IF reqs[i].phase = "responded" THEN RemoveAt(reqs, i)
             ELSE [reqs EXCEPT ![i].phase = "echoed"],
             Echoed(reqs[i], Now, NoCounts), Accepted(reqs[i]))
  /\ Did(IF reqs[i].kind = "create" THEN "createEchoed" ELSE "deleteEchoed", reqs[i].id)

\* deleteComment rejects: the catch block of handleDelete.
DeleteFailed(item, hasMessage) ==
  [item EXCEPT !.error = IF hasMessage THEN ServiceMessage ELSE "Failed to delete comment",
               !.isDeleting = FALSE]
DeleteFail(i, hasMessage) ==
  /\ i \in DOMAIN reqs
  /\ reqs[i].kind = "delete"
  /\ reqs[i].phase = "sent"
  /\ reqs' = RemoveAt(reqs, i)
  /\ items' = IF reqs[i].alive
              THEN [items EXCEPT ![reqs[i].owner] = DeleteFailed(@, hasMessage)]
              ELSE items
  /\ Did("deleteFail", reqs[i].id)
  /\ UNCHANGED <<listVars, fetches, threadReqs, server, histVars, registered>>

\* The user starts one thing at a time.
OwnRoom == reqs = << >>

NextOwn ==
  \/ \E i \in DOMAIN fetches : FetchSuccess(i, ServerPage(server, fetches[i].page, fetches[i].sort))
  \/ OwnRoom /\ C1 \in DOMAIN items /\ ~items[C1].isDeleting /\ HandleLike(C1)
  \/ \E i \in DOMAIN reqs : ReqSuccess(i)
  \/ \E i \in DOMAIN reqs : \E p \in Payloads(reqs[i].kind) : DeliverEcho(i, p.lc, p.dc)
  \/ OwnRoom /\ CreateComment(TopLevel(C2))
  \/ \E id \in DOMAIN items : OwnRoom /\ HandleDelete(id)
  \/ \E i \in DOMAIN reqs : OwnReturned(i)
  \/ \E i \in DOMAIN reqs : OwnEchoed(i)
  \/ \E i \in DOMAIN reqs, hasMessage \in BOOLEAN : DeleteFail(i, hasMessage)

SpecOwn == Init /\ [][NextOwn]_vars

\* ================================== SpecPages: the pages of a collection
\* The service holds any number of top-level comments up to MaxTotal; the user
\* walks through the pages.
InitPages == (\E n \in 0..MaxTotal : server = 1..n) /\ Mounted

NextPages ==
  \/ \E i \in DOMAIN fetches : FetchSuccess(i, ServerPage(server, fetches[i].page, fetches[i].sort))
  \/ \E i \in DOMAIN fetches, hasMessage \in BOOLEAN : FetchFail(i, hasMessage)
  \/ \E page \in 1..pagination.totalPages : HandlePageChange(page)

SpecPages == InitPages /\ [][NextPages]_vars

\* ============================== SpecLive: every request is answered
\* Page and sort changes as in SpecRefetch, with failures; the awaited
\* getComments promise of a request in flight settles sooner or later.
Settle ==
  \/ \E i \in DOMAIN fetches, hasMessage \in BOOLEAN : FetchFail(i, hasMessage)
  \/ \E i \in DOMAIN fetches : FetchSuccess(i, ServerPage(server, fetches[i].page, fetches[i].sort))

NextLive ==
  \/ Settle
  \/ \E page \in 1..pagination.totalPages : HandlePageChange(page)
  \/ \E newSort \in Sorts : HandleSortChange(newSort)

SpecLive == InitWindow /\ [][NextLive]_vars /\ WF_vars(Settle)

\* ========================= SpecReplyPage: a reply created on a later page
\* The service holds a page and one more of top-level comments; the user walks
\* through the pages and the sorts, opens the reply form of C1 and submits
\* replies.
TopLevelHeld(srv) == srv \ RepliesHeld(srv)
ReplyPageRoom == Cardinality(RepliesHeld(server)) < MaxPush

NextReplyPage ==
  \/ \E i \in DOMAIN fetches :
        FetchSuccess(i, ServerPage(TopLevelHeld(server), fetches[i].page, fetches[i].sort))
  \/ \E page \in 1..pagination.totalPages : HandlePageChange(page)
  \/ \E newSort \in Sorts : HandleSortChange(newSort)
  \/ HandleReply(C1)
  \/ \E i \in DOMAIN threadReqs : \E resp \in Answers(i) : RepliesSuccess(i, resp)
  \/ ReplyPageRoom /\ HandleReplyCreated(C1, NextReply)

SpecReplyPage == InitWindow /\ [][NextReplyPage]_vars

\* ============================ SpecRetry: reply pages that fail to load
\* The service holds C1 and up to two pages and one more of its replies; the
\* user expands, collapses and pages through the thread, and any request may
\* fail.
InitRetry ==
  /\ \E n \in 0..(2 * ThreadSize + 1) : server = {C1} \cup (R1..(R1 + n - 1))
  /\ Mounted

NextRetry ==
  \/ \E i \in DOMAIN fetches : FetchSuccess(i, ParentResponse(server))
  \/ HandleReply(C1)
  \/ HandleToggleReplies(C1)
  \/ HandleLoadMoreReplies(C1)
  \/ \E i \in DOMAIN threadReqs :
        RepliesSuccess(i, ThreadPage(RepliesHeld(server), threadReqs[i].page))
  \/ \E i \in DOMAIN threadReqs : RepliesFail(i)

SpecRetry == InitRetry /\ [][NextRetry]_vars

\* ---------------------------------------------------------------- claims
Held == {comments[i] : i \in DOMAIN comments}
        \cup {items[id].currentComment : id \in DOMAIN items}
        \cup UNION {{items[id].replies[j] : j \in DOMAIN items[id].replies} : id \in DOMAIN items}

\* C1: no comment or reply the client holds is both liked and disliked by the
\* viewer, in any reachable state.
C1_NeverBothReactions == \A c \in Held : ~(c.isLikedByUser /\ c.isDislikedByUser)

\* C2: when the echo of a local like (a request of kind like issued by
\* handleLike) is applied, the comment's counts are the echo's and its own
\* state is liked and not disliked, in the list and in the item.
C2_SelfEchoOverwrite ==
  [][\A i \in DOMAIN reqs, lc \in Counts, dc \in Counts :
       (DeliverEcho(i, lc, dc) /\ reqs[i].kind = "like" /\ reqs[i].flag = "isLiking"
          /\ reqs[i].id \in DOMAIN items')
       => LET want == [CommentOf(comments, reqs[i].id) EXCEPT
                         !.likeCount = lc, !.dislikeCount = dc,
                         !.isLikedByUser = TRUE, !.isDislikedByUser = FALSE]
          IN /\ items'[reqs[i].id].currentComment = want
             /\ CommentOf(comments', reqs[i].id) = want]_vars

Clicked == /\ last'.op \in {"handleLike", "handleDislike"}
           /\ Len(reqs') = Len(reqs) + 1

OwnState(c) == <<c.isLikedByUser, c.isDislikedByUser>>
HasCounts(c, lc, dc) == c.likeCount = lc /\ c.dislikeCount = dc

\* C3: a ReactionChanged event of another user sets the counts of its target
\* to the event's and changes the own-reaction state of no comment or reply
\* the client holds.
C3_OthersReactionKeepsOwnState ==
  [][\A id \in {C1, R1}, type \in Kinds, lc \in Counts, dc \in Counts :
       PushReaction(id, FALSE, type, lc, dc)
       => /\ \A i \in DOMAIN comments :
               /\ OwnState(comments'[i]) = OwnState(comments[i])
               /\ comments[i].id = id => HasCounts(comments'[i], lc, dc)
          /\ \A p \in DOMAIN items :
               /\ OwnState(items'[p].currentComment) = OwnState(items[p].currentComment)
               /\ p = id => HasCounts(items'[p].currentComment, lc, dc)
               /\ \A j \in DOMAIN items[p].replies :
                    /\ OwnState(items'[p].replies[j]) = OwnState(items[p].replies[j])
                    /\ items[p].replies[j].id = id => HasCounts(items'[p].replies[j], lc, dc)]_vars

ReactionEvents ==
  {MkReaction(id, self, type, lc, dc) :
     id \in {C1, R1}, self \in BOOLEAN, type \in Kinds, lc \in Counts, dc \in Counts}

\* C4: from every reachable state and for every ReactionChanged event, applying
\* the event twice leaves the window and the items (counts and own-reaction
\* state of every comment and reply) as applying it once does.
C4_ReactionIdempotent ==
  \A data \in ReactionEvents :
    LET cs1 == ReactedComments(comments, data)
        its1 == ReactedItems(comments, loading, items, data)
    IN /\ ReactedComments(cs1, data) = cs1
       /\ ReactedItems(cs1, loading, its1, data) = its1

C4_Witness ==
  /\ last.op = "pushOwnReaction" /\ last.id = R1
  /\ C1 \in DOMAIN items /\ R1 \in IdsOf(items[C1].replies)
  /\ CommentOf(items[C1].replies, R1).isLikedByUser
  /\ CommentOf(comments, C1).isDislikedByUser

\* C8: at most one reaction request per comment or reply is in flight.
C8_OneRequestInFlight == \A id \in {C1, R1} : InFlight(id) <= 1

\* C5: the reply count of a parent in the window is the count it was fetched
\* with plus the replies created minus the replies deleted since, whatever the
\* state of its thread.
C5_ReplyCountConsistent ==
  /\ \A i \in DOMAIN comments : comments[i].replyCount = expectRC[comments[i].id]
  /\ \A id \in DOMAIN items : items[id].currentComment.replyCount = expectRC[id]

\* A CommentCreated push for a new top-level comment, while the window shows
\* a fetched page.
NewCommentPushed ==
  /\ last'.op = "newComment" /\ last'.id \notin IdsOf(comments)
  /\ ~loading /\ comments # << >>

\* C9: a CommentCreated push on page 1 under sort newest puts the new comment
\* first in the window, keeps the window within the page size and increments
\* the total count by one.
C9_CreatedOnFirstPage ==
  [][(NewCommentPushed /\ pagination.currentPage = 1 /\ sort = "newest")
     => /\ comments' # << >> /\ Head(comments').id = last'.id
        /\ Len(comments') <= PageSize
        /\ pagination'.total = pagination.total + 1]_vars

\* C10: a CommentCreated push on another page or under another sort leaves the
\* window unchanged and increments the total count by one.
C10_CreatedElsewhere ==
  [][(NewCommentPushed /\ (pagination.currentPage # 1 \/ sort # "newest"))
     => /\ comments' = comments
        /\ pagination'.total = pagination.total + 1]_vars

\* A CommentDeleted push ('commentDeleted' or 'deletedComment') for a top-level
\* comment of the window, while the window is shown.
TopLevelDeleted ==
  /\ last'.op \in {"commentDeleted", "deletedComment"}
  /\ last'.id \in IdsOf(comments) /\ ~loading

\* C11: a CommentDeleted push for a top-level comment of the window removes it
\* from the window and adds nothing, decrements the total count by one, and
\* issues no fetch.
C11_DeletedFromWindow ==
  [][TopLevelDeleted
     => /\ comments' = FilterOut(comments, last'.id)
        /\ pagination'.total = pagination.total - 1
        /\ fetches' = fetches]_vars

\* C12: the thread of C1 was never loaded and is being expanded (the page-1
\* request is in flight) when the ReplyCreated push of R3 arrives; when the
\* request then completes, the thread holds R3 and the fetched R1 and R2,
\* each once.
C12_PushDuringExpand ==
  [][(/\ last.op = "replyCreated" /\ last.id = R3
      /\ C1 \in DOMAIN items
      /\ items[C1].loadingReplies /\ items[C1].replies = <<Reply(R3)>>
      /\ last'.op = "repliesSuccess")
     => /\ IdsOf(items'[C1].replies) = {R1, R2, R3}
        /\ Len(items'[C1].replies) = 3]_vars

NoRepeat(cs) == \A i, j \in DOMAIN cs : cs[i].id = cs[j].id => i = j

\* C13: after a load-more completed, the thread's reply sequence holds no
\* identifier twice.
C13_LoadMoreNoDuplicates ==
  (last.op = "repliesSuccess" /\ C1 \in DOMAIN items /\ items[C1].repliesPage > 1)
  => NoRepeat(items[C1].replies)

\* C14: the reply count of every mounted parent is at least the number of
\* distinct reply identifiers loaded in its thread.
C14_CountCoversLoaded ==
  \A id \in DOMAIN items :
    items[id].currentComment.replyCount >= Cardinality(IdsOf(items[id].replies))

\* The thread of the item was never fetched and is collapsed.
NeverLoaded(item) == item.replies = << >> /\ ~item.showReplies /\ ~item.loadingReplies

\* C15: a ReplyCreated push for a parent whose thread is not loaded increments
\* the parent's reply count and leaves the thread's sequence empty.
C15_PushToUnloadedThread ==
  [][(last'.op = "replyCreated" /\ C1 \in DOMAIN items /\ NeverLoaded(items[C1]))
     => /\ items'[C1].currentComment.replyCount = items[C1].currentComment.replyCount + 1
        /\ items'[C1].replies = << >>]_vars

\* The thread of C1 holds a reply of a fetched page (R1 is in every page 1 the
\* service returns here), so it was loaded.
Loaded(item) == R1 \in IdsOf(item.replies)

\* The thread of C1 becomes visible in this step.
Shown == /\ C1 \in DOMAIN items /\ C1 \in DOMAIN items'
         /\ ~items[C1].showReplies /\ items'[C1].showReplies

\* C16: when a thread that was never loaded becomes visible, the same step
\* moves it to loading and requests page 1 of its replies, also when its
\* sequence holds pushed replies.
C16_ExpandRequestsFirstPage ==
  [][(Shown /\ ~Loaded(items[C1]))
     => /\ items'[C1].loadingReplies
        /\ Len(threadReqs') = Len(threadReqs) + 1
        /\ threadReqs'[Len(threadReqs')].page = 1]_vars

\* C17: showing or hiding a loaded thread, by the replies toggle or by the
\* Reply button, issues no request and leaves its sequence, page number and
\* has-more flag unchanged.
C17_ToggleLoadedThread ==
  [][(/\ last'.op \in {"handleReply", "handleToggleReplies"}
      /\ Loaded(items[C1]) /\ ~items[C1].loadingReplies
      /\ items'[C1].showReplies # items[C1].showReplies)
     => /\ threadReqs' = threadReqs
        /\ ~items'[C1].loadingReplies
        /\ items'[C1].replies = items[C1].replies
        /\ items'[C1].repliesPage = items[C1].repliesPage
        /\ items'[C1].hasMoreReplies = items[C1].hasMoreReplies]_vars

\* C18: no step takes a reply count below zero, and a reply-deleted event
\* that arrives when the parent's count is zero leaves it at zero.
C18_ReplyCountFloor ==
  [][/\ \A i \in DOMAIN comments' : comments'[i].replyCount >= 0
     /\ \A id \in DOMAIN items' : items'[id].currentComment.replyCount >= 0
     /\ (/\ last'.op \in {"commentDeleted", "deletedComment"}
         /\ C1 \in IdsOf(comments) /\ CommentOf(comments, C1).replyCount = 0)
        => /\ C1 \in IdsOf(comments') /\ CommentOf(comments', C1).replyCount = 0
           /\ C1 \in DOMAIN items' => items'[C1].currentComment.replyCount = 0]_vars

C18_Witness ==
  /\ last.op = "commentDeleted" /\ last.id = R1
  /\ C1 \in DOMAIN items /\ items[C1].currentComment.replyCount = 0
  /\ expectRC[C1] < 0

\* The request i asks for the (page, sort) of the latest fetchComments call.
ForTarget(i) == fetches[i].page = target.page /\ fetches[i].sort = target.sort

\* C19: the result of a top-level fetch whose (page, sort) is no longer the
\* most recently requested one is discarded: window, page number and totals
\* stay as they were and no error is shown.
C19_StaleFetchDiscarded ==
  [][\A i \in DOMAIN fetches :
       (/\ FetchSuccess(i, ServerPage(server, fetches[i].page, fetches[i].sort))
        /\ ~ForTarget(i))
       => /\ comments' = comments
          /\ pagination' = pagination
          /\ error' = error]_vars

\* C20: handleSortChange(mode) sets the sort and requests page 1 under it,
\* handlePageChange(n) requests page n under the current sort, and when a
\* request for the latest (page, sort) succeeds the window is exactly the
\* returned sequence and the current page and sort are the requested ones.
C20_RefetchWholesale ==
  [][/\ last'.op = "sortChange"
        => /\ Len(fetches') > Len(fetches)
           /\ \A k \in (Len(fetches) + 1)..Len(fetches') :
                 fetches'[k].page = 1 /\ fetches'[k].sort = sort'
           /\ SubSeq(fetches', 1, Len(fetches)) = fetches
     /\ last'.op = "pageChange"
        => /\ sort' = sort
           /\ fetches' = Append(fetches, [page |-> last'.id, sort |-> sort, held |-> server])
     /\ \A i \in DOMAIN fetches :
          LET resp == ServerPage(server, fetches[i].page, fetches[i].sort)
          IN (FetchSuccess(i, resp) /\ ForTarget(i))
             => /\ comments' = resp.comments
                /\ pagination'.currentPage = target.page
                /\ pagination'.total = resp.pagination.totalComments
                /\ sort' = target.sort]_vars

C20_Witness ==
  /\ last.op = "fetchSuccess" /\ fetches = << >> /\ ~loading
  /\ sort = "mostLiked" /\ target = [page |-> 2, sort |-> "mostLiked"]
  /\ pagination.currentPage = 2
  /\ comments = ServerPage(server, 2, "mostLiked").comments

\* C21: a push event applied a second time, right after its first application
\* and with the same identifier, kind and payload, leaves the window and the
\* items as the first application left them.
C21_PushAppliedTwice ==
  [][(/\ last.op \in {"newReply", "newComment", "commentDeleted", "deletedComment"}
      /\ last'.op = last.op /\ last'.id = last.id)
     => comments' = comments /\ items' = items]_vars

\* C23: after a CommentDeleted push ('commentDeleted' or 'deletedComment') for
\* an identifier was applied, the identifier is in no window and in no
\* thread's reply sequence.
C23_DeletedEverywhere ==
  [][last'.op \in {"commentDeleted", "deletedComment"}
     => /\ last'.id \notin IdsOf(comments')
        /\ \A id \in DOMAIN items' : last'.id \notin IdsOf(items'[id].replies)]_vars

\* C22: a reaction, update or delete event for a comment that is neither in the
\* window nor in a mounted item's replies, and a reply event whose parent is
\* not in the window, changes nothing of what the client shows: the window, the
\* items (their comments, threads and errors), the total, the list's error.
Known == IdsOf(comments) \cup UNION {IdsOf(items[id].replies) : id \in DOMAIN items}
C22_UnknownEventIgnored ==
  [][(\/ /\ last'.op \in {"pushReaction", "pushOwnReaction", "commentUpdated",
                          "commentDeleted", "deletedComment"}
         /\ last'.id \notin Known
      \/ \E newComment \in Strangers :
            /\ PushNewReply(newComment) \/ PushNewComment(newComment)
            /\ newComment.parentComment \notin IdsOf(comments))
     => UNCHANGED <<comments, items, pagination, loading, error>>]_vars
C22_Witness ==
  /\ last.op \in {"commentUpdated", "newReply", "commentDeleted"}
  /\ last.id \in {CX, RX}
  /\ C1 \in DOMAIN items /\ R1 \in IdsOf(items[C1].replies)

C29_WindowIdsUnique == ~loading => NoRepeat(comments)

\* C30: whenever no top-level fetch is in flight, the window holds at most as
\* many comments as the displayed total.
C30_WindowWithinTotal == fetches = << >> => Len(comments) <= pagination.total

\* C25: when a reaction request of a mounted item fails, the item shows the
\* service's message if the failure carries one and the fixed fallback
\* otherwise, its in-flight flags are cleared, and no request is issued.
C25_FailureSurfaced ==
  [][\A i \in DOMAIN reqs, hasMessage \in BOOLEAN :
       (ReqFail(i, hasMessage) /\ reqs[i].alive) =>
          /\ items'[reqs[i].owner].error =
                (IF hasMessage THEN ServiceMessage ELSE "Failed to update reaction")
          /\ ~items'[reqs[i].owner].isLiking /\ ~items'[reqs[i].owner].isDisliking
          /\ Len(reqs') < Len(reqs)
          /\ UNCHANGED <<fetches, threadReqs>>]_vars

\* C26: in every state that is shown the stored display fields equal the arithmetic of the
\* stored page and total: startIndex = (page - 1) * pageSize + 1, endIndex =
\* min(page * pageSize, total), remainingItems = max(0, total - page * pageSize),
\* isLastPage = (page is the last page).
Derived(p) ==
  /\ p.startIndex = (p.currentPage - 1) * PageSize + 1
  /\ p.endIndex = Min(p.currentPage * PageSize, p.total)
  /\ p.remainingItems = Max0(p.total - p.currentPage * PageSize)
  /\ p.isLastPage = (p.currentPage = p.totalPages)
C27_FetchingEnds ==
  /\ [][(Len(fetches') > Len(fetches)) => (loading' /\ error' = NoError)]_vars
  /\ [][(Len(fetches') < Len(fetches)) => ~loading']_vars
  /\ (loading ~> ~loading)
C27_Witness ==
  /\ last.op = "fetchFail" /\ ~loading /\ error # NoError
  /\ pagination.currentPage = 2 /\ target.page = 1

\* C28: the push handlers that are registered belong to mounted items: once an
\* item is discarded none of its handlers remains registered.
C28_NoDanglingHandlers == registered \subseteq DOMAIN items

\* C31: a reply created under a comment leaves the sort unchanged, and the
\* refresh it triggers requests the page the window is on, under that sort.
C31_ReplyKeepsPage ==
  [][last'.op = "handleReplyCreated"
     => /\ sort' = sort
        /\ fetches' # << >>
        /\ fetches'[Len(fetches')].page = pagination.currentPage
        /\ fetches'[Len(fetches')].sort = sort]_vars

\* C32: whenever the list's loading flag is false, no top-level fetch is in
\* flight.
C32_LoadingAccurate == ~loading => fetches = << >>

\* C33: a failed reply-page load leaves the item's replies, repliesPage and
\* hasMoreReplies as they were and clears loadingReplies; a load-more always
\* requests repliesPage + 1, hence the same page again after a failure; and
\* repliesPage increases only by one, when a load-more request succeeds.
ThreadOf(item) == <<item.replies, item.repliesPage, item.hasMoreReplies>>
C33_FailedLoadKeepsThread ==
  [][/\ \A i \in DOMAIN threadReqs :
          (RepliesFail(i) /\ threadReqs[i].alive) =>
             /\ ThreadOf(items'[threadReqs[i].owner]) = ThreadOf(items[threadReqs[i].owner])
             /\ ~items'[threadReqs[i].owner].loadingReplies
      /\ \A id \in DOMAIN items :
          HandleLoadMoreReplies(id) =>
             threadReqs'[Len(threadReqs')].page = items[id].repliesPage + 1
      /\ \A key \in DOMAIN items \cap DOMAIN items' :
          items'[key].repliesPage > items[key].repliesPage =>
             /\ items'[key].repliesPage = items[key].repliesPage + 1
             /\ last'.op = "repliesSuccess"
             /\ \E j \in DOMAIN threadReqs :
                   /\ threadReqs[j].owner = key
                   /\ threadReqs[j].page = items[key].repliesPage + 1
                   /\ threadReqs' = RemoveAt(threadReqs, j)]_vars
C33_Witness ==
  /\ last.op = "repliesFail"
  /\ C1 \in DOMAIN items
  /\ items[C1].repliesPage = 2 /\ Len(items[C1].replies) = 2 * ThreadSize
  /\ items[C1].hasMoreReplies /\ items[C1].showReplies /\ ~items[C1].loadingReplies

====
